---- MODULE Spec2Model ----
(***************************************************************************)
(* The two diagram generators of diagrams/: generate_diagrams.py (the      *)
(* graphical variant, writing into output/) and generate_mermaid.py (the   *)
(* textual variant, writing into mermaid/).  One behaviour follows one     *)
(* script through its statements, from module load to process exit, and    *)
(* possibly through a second invocation of the same script against the     *)
(* directory the first one left behind.                                    *)
(*                                                                         *)
(* Text is a TLA+ string; Len, \o, Head, Tail and SubSeq act on strings as *)
(* on sequences of characters.  A file opened by `with open(..) as f` is   *)
(* flushed and closed when the block is left, normally or by an exception, *)
(* so the model adds every f.write to the file at once.                    *)
(*                                                                         *)
(* A string of the language cannot hold a backquote.  The backquotes of    *)
(* the Markdown code fences are written as apostrophes, a character that   *)
(* occurs nowhere in the text the scripts write, so texts keep their       *)
(* lengths and distinct texts stay distinct.                               *)
(***************************************************************************)
EXTENDS Integers, Sequences, FiniteSets, TLC

(***************************************************************************)
(* Bounds                                                                  *)
(***************************************************************************)
\* Number of files the target directory may hold before the first run.
MaxPrior == 2
\* Number of times the script is run against the same directory.
MaxRuns == 2

(***************************************************************************)
(* generate_mermaid.py: the builders                                       *)
(***************************************************************************)
\* generate_high_level_architecture(): the text block the builder returns (lines 15-45).
generate_high_level_architecture ==
       "\n"
    \o "'''mermaid\n"
    \o "flowchart TB\n"
    \o "    subgraph Client\n"
    \o "        Browser[\"Browser\"]\n"
    \o "        VueComponents[\"Vue.js Components\"]\n"
    \o "    end\n"
    \o "    \n"
    \o "    subgraph Server\n"
    \o "        subgraph LiveVue\n"
    \o "            LiveVueCore[\"LiveVue Core\"]\n"
    \o "            SSRModule[\"Server-Side Rendering\"]\n"
    \o "        end\n"
    \o "        Phoenix[\"Phoenix LiveView\"]\n"
    \o "    end\n"
    \o "    \n"
    \o "    Browser --> VueComponents\n"
    \o "    Browser --> Phoenix\n"
    \o "    Phoenix --> LiveVueCore\n"
    \o "    LiveVueCore --> SSRModule\n"
    \o "    SSRModule --> VueComponents\n"
    \o "'''\n"

\* generate_component_flow(): the text block the builder returns (lines 47-79).
generate_component_flow ==
       "\n"
    \o "'''mermaid\n"
    \o "flowchart LR\n"
    \o "    subgraph Elixir\n"
    \o "        Template[\"Template (HEEx)\"]\n"
    \o "        LiveVueComponent[\"LiveVue.vue Component\"]\n"
    \o "        SSRModule[\"SSR Module\"]\n"
    \o "    end\n"
    \o "    \n"
    \o "    subgraph JavaScript\n"
    \o "        Hooks[\"Vue Hooks\"]\n"
    \o "        VueApp[\"Vue Application\"]\n"
    \o "        Components[\"Vue Components\"]\n"
    \o "    end\n"
    \o "    \n"
    \o "    Client[\"Browser\"]\n"
    \o "    \n"
    \o "    Template --> LiveVueComponent\n"
    \o "    LiveVueComponent --> SSRModule\n"
    \o "    LiveVueComponent --> Hooks\n"
    \o "    Hooks --> VueApp\n"
    \o "    VueApp --> Components\n"
    \o "    Components --> Client\n"
    \o "'''\n"

\* generate_data_flow(): the text block the builder returns (lines 81-118).
generate_data_flow ==
       "\n"
    \o "'''mermaid\n"
    \o "flowchart TD\n"
    \o "    subgraph PhoenixLiveView\n"
    \o "        LiveView[\"LiveView\"]\n"
    \o "        Assigns[\"Assigns\"]\n"
    \o "        LiveVueComponent[\"LiveVue Component\"]\n"
    \o "    end\n"
    \o "    \n"
    \o "    subgraph JavaScriptRuntime\n"
    \o "        Hook[\"Vue Hook\"]\n"
    \o "        VueApp[\"Vue Application\"]\n"
    \o "        Props[\"Props\"]\n"
    \o "        Events[\"Events\"]\n"
    \o "    end\n"
    \o "    \n"
    \o "    subgraph DOM\n"
    \o "        Element[\"Vue Component Element\"]\n"
    \o "    end\n"
    \o "    \n"
    \o "    LiveView --> Assigns\n"
    \o "    Assigns --> LiveVueComponent\n"
    \o "    LiveVueComponent --> Element\n"
    \o "    Element --> Hook\n"
    \o "    Hook --> Props\n"
    \o "    Props --> VueApp\n"
    \o "    VueApp --> Events\n"
    \o "    Events --> LiveView\n"
    \o "'''\n"

\* generate_ssr_process(): the text block the builder returns (lines 120-149).
generate_ssr_process ==
       "\n"
    \o "'''mermaid\n"
    \o "sequenceDiagram\n"
    \o "    participant LV as LiveView\n"
    \o "    participant LVC as LiveVue.vue Component\n"
    \o "    participant SSR as SSR Module\n"
    \o "    participant Node as Node.js SSR Server\n"
    \o "    participant VueSSR as Vue SSR Renderer\n"
    \o "    participant Browser\n"
    \o "    participant Client as Client Vue\n"
    \o "    \n"
    \o "    LV->>LVC: Render component\n"
    \o "    LVC->>SSR: Request SSR\n"
    \o "    SSR->>Node: Forward component data\n"
    \o "    Node->>VueSSR: Render component\n"
    \o "    VueSSR-->>Node: HTML & preload links\n"
    \o "    Node-->>SSR: HTML & preload links\n"
    \o "    SSR-->>LVC: HTML & preload links\n"
    \o "    LVC-->>Browser: Complete HTML\n"
    \o "    Browser->>Client: Hydrate Vue component\n"
    \o "'''\n"

\* generate_class_diagram(): the text block the builder returns (lines 151-204).
generate_class_diagram ==
       "\n"
    \o "'''mermaid\n"
    \o "classDiagram\n"
    \o "    class LiveVue {\n"
    \o "        +vue(assigns)\n"
    \o "        +__using__(opts)\n"
    \o "        -extract(assigns, type)\n"
    \o "        -normalize_key(key, val)\n"
    \o "        -key_changed(assigns, key)\n"
    \o "        -ssr_render(assigns)\n"
    \o "        -json(data)\n"
    \o "        -id(name)\n"
    \o "    }\n"
    \o "    \n"
    \o "    class LiveVue_SSR {\n"
    \o "        +render(name, props, slots)\n"
    \o "    }\n"
    \o "    \n"
    \o "    class LiveVue_Components {\n"
    \o "        +__using__(opts)\n"
    \o "        -name_to_function(name)\n"
    \o "    }\n"
    \o "    \n"
    \o "    class LiveVue_Slots {\n"
    \o "        +rendered_slot_map(slots)\n"
    \o "        +base_encode_64(slots)\n"
    \o "    }\n"
    \o "    \n"
    \o "    class Vue_Hooks {\n"
    \o "        +mounted()\n"
    \o "        +updated()\n"
    \o "        +destroyed()\n"
    \o "    }\n"
    \o "    \n"
    \o "    class Vue_App {\n"
    \o "        +createApp()\n"
    \o "        +createSSRApp()\n"
    \o "    }\n"
    \o "    \n"
    \o "    LiveVue --> LiveVue_SSR : uses\n"
    \o "    LiveVue --> LiveVue_Slots : uses\n"
    \o "    LiveVue --> LiveVue_Components : provides\n"
    \o "    Vue_Hooks --> Vue_App : creates\n"
    \o "    LiveVue_SSR --> Vue_App : renders with\n"
    \o "'''\n"

\* generate_lifecycle_diagram(): the text block the builder returns (lines 206-242).
generate_lifecycle_diagram ==
       "\n"
    \o "'''mermaid\n"
    \o "stateDiagram-v2\n"
    \o "    [*] --> TemplateRender: Elixir template includes LiveVue component\n"
    \o "    TemplateRender --> SSRCheck: LiveVue.vue function called\n"
    \o "    \n"
    \o "    SSRCheck --> SSRRender: If initial render and not connected\n"
    \o "    SSRCheck --> NoSSR: If connected or SSR disabled\n"
    \o "    \n"
    \o "    SSRRender --> HTMLGeneration: SSR module renders component\n"
    \o "    NoSSR --> HTMLGeneration: Skip SSR, generate placeholder\n"
    \o "    \n"
    \o "    HTMLGeneration --> DOMMount: HTML rendered to page\n"
    \o "    \n"
    \o "    DOMMount --> HookMount: Vue hook mounted\n"
    \o "    HookMount --> VueApp: Vue app created\n"
    \o "    VueApp --> ClientHydration: Vue app hydrates component\n"
    \o "    \n"
    \o "    ClientHydration --> EventHandling: Component ready for interaction\n"
    \o "    EventHandling --> EventHandling: User interacts with component\n"
    \o "    \n"
    \o "    EventHandling --> LiveViewUpdate: Events sent to LiveView\n"
    \o "    LiveViewUpdate --> ComponentUpdate: LiveView updates component props\n"
    \o "    ComponentUpdate --> EventHandling: Component re-renders with new props\n"
    \o "    \n"
    \o "    ComponentUpdate --> HookDestroy: When LiveView navigates away\n"
    \o "    HookDestroy --> [*]: Vue app unmounted\n"
    \o "'''\n"

(***************************************************************************)
(* The dict literal of generate_all_diagrams, as the list of its entries   *)
(* in insertion order (a dict iterates in insertion order).                *)
(***************************************************************************)
DiagramEntries ==
    << [name |-> "architecture",   content |-> generate_high_level_architecture],
       [name |-> "component_flow", content |-> generate_component_flow],
       [name |-> "data_flow",      content |-> generate_data_flow],
       [name |-> "ssr_process",    content |-> generate_ssr_process],
       [name |-> "class_diagram",  content |-> generate_class_diagram],
       [name |-> "lifecycle",      content |-> generate_lifecycle_diagram] >>

\* A variant that leaves out the extension: f"mermaid/{name}".
MdPathNoExt(name) == name

\* The path save_diagram opens, relative to mermaid/ : f"mermaid/{name}.md".
MdPath(name) == name \o ".md"

\* The path of the index document, relative to mermaid/.
IndexPath == "index.md"

(***************************************************************************)
(* str.replace and str.title, character by character                       *)
(***************************************************************************)
LowerAlpha == "abcdefghijklmnopqrstuvwxyz"
UpperAlpha == "ABCDEFGHIJKLMNOPQRSTUVWXYZ"

CharAt(s, k) == SubSeq(s, k, k)

IsLower(c) == \E k \in 1..26 : CharAt(LowerAlpha, k) = c
IsUpper(c) == \E k \in 1..26 : CharAt(UpperAlpha, k) = c
IsCased(c) == IsLower(c) \/ IsUpper(c)

ToUpper(c) ==
    IF IsLower(c)
    THEN CharAt(UpperAlpha, CHOOSE k \in 1..26 : CharAt(LowerAlpha, k) = c)
    ELSE c

ToLower(c) ==
    IF IsUpper(c)
    THEN CharAt(LowerAlpha, CHOOSE k \in 1..26 : CharAt(UpperAlpha, k) = c)
    ELSE c

\* s.replace(old, new) for one-character old and new.
RECURSIVE Replace(_, _, _)
Replace(s, old, new) ==
    IF s = "" THEN ""
    ELSE (IF Head(s) = old THEN new ELSE Head(s)) \o Replace(Tail(s), old, new)

\* s.title(): a cased character is upper-cased when the character before it
\* is not cased (or there is none), and lower-cased otherwise.
RECURSIVE TitleFrom(_, _)
TitleFrom(s, prevCased) ==
    IF s = "" THEN ""
    ELSE (IF prevCased THEN ToLower(Head(s)) ELSE ToUpper(Head(s)))
         \o TitleFrom(Tail(s), IsCased(Head(s)))

\* A variant that upper-cases the first character only.
Capitalize(s) ==
    IF s = "" THEN "" ELSE ToUpper(Head(s)) \o Tail(s)

Title(s) == TitleFrom(s, FALSE)

\* title = name.replace("_", " ").title()
SectionTitle(name) == Title(Replace(name, "_", " "))

\* f"## {title}\n\n"
SectionHeading(name) == "## " \o SectionTitle(name) \o "\n\n"

IndexTitle == "# LiveVue Architecture Diagrams\n\n"
IndexDescription ==
    "This document contains various diagrams explaining the architecture of LiveVue.\n\n"

(***************************************************************************)
(* generate_diagrams.py: the builders                                      *)
(***************************************************************************)
\* The filename argument of each builder's Diagram(...), relative to
\* output/, in the order __main__ calls the builders.
GraphicalFilenames ==
    << "architecture", "component_flow", "data_flow", "ssr_process" >>

\* Diagram(...) renders to filename plus the extension of its output
\* format; no builder passes outformat, so the library's default applies.
OutExt == ".png"
RenderPath(k) == GraphicalFilenames[k] \o OutExt

\* What the drawing library renders for a diagram: bytes outside this
\* repository, kept as a non-empty token that names the diagram.
Rendered(k) == "<rendered " \o GraphicalFilenames[k] \o ">"

(***************************************************************************)
(* The target directory                                                    *)
(***************************************************************************)
\* A directory listing is a function from the names of the files it holds
\* to their contents.
EmptyDir == [f \in {} |-> ""]

\* A variant: open(path, "a"), which creates the file but keeps what an
\* existing file holds.
OpenA(dir, path) ==
    [f \in DOMAIN dir \cup {path} |-> IF f \in DOMAIN dir THEN dir[f] ELSE ""]

\* open(path, "w"): creates the file or truncates it to nothing.
OpenW(dir, path) ==
    [f \in DOMAIN dir \cup {path} |-> IF f = path THEN "" ELSE dir[f]]

\* f.write(data) on an open file.
Write(dir, path, data) == [dir EXCEPT ![path] = @ \o data]

\* The names each script writes, in the order it writes them.
TextualTopics ==
    << "architecture", "component_flow", "data_flow",
       "ssr_process", "class_diagram", "lifecycle" >>

TextualPaths == {MdPath(TextualTopics[k]) : k \in 1..6} \cup {IndexPath}
GraphicalPaths == {RenderPath(k) : k \in 1..4}

\* What a directory may hold before the first run: files with the names
\* the script is about to write, or a file of some other name, holding
\* text that is shorter or longer than anything the script writes.
RECURSIVE Repeat(_, _)
Repeat(s, n) == IF n = 0 THEN "" ELSE s \o Repeat(s, n - 1)

StaleShort == "stale\n"
StaleLong == Repeat("a line of an older document\n", 200)
StrayPath == "notes.txt"

PriorNames(s) ==
    (IF s = "textual" THEN TextualPaths ELSE GraphicalPaths) \cup {StrayPath}

PriorDirs(s) ==
    UNION { [S -> {StaleShort, StaleLong}] :
              S \in {T \in SUBSET PriorNames(s) : Cardinality(T) <= MaxPrior} }

(***************************************************************************)
(* State                                                                   *)
(***************************************************************************)
VARIABLES
    script,          \* which script is run: "graphical" or "textual"
    pc,              \* the statement the process is at
    i,               \* 1-based position in the builder list or the loop
    libAvailable,    \* whether `import diagrams` can succeed
    importAttempts,  \* imports of the drawing library tried in this run
    installAttempts, \* os.system("pip install diagrams") calls in this run
    dirExists,       \* whether output/ (or mermaid/) exists
    fs,              \* the listing of output/ (or mermaid/)
    start,           \* dirExists and fs as they were when this run started
    diagrams,        \* the entries of the dict evaluated so far
    calls,           \* the builders invoked in this run, in order
    stdout,          \* the messages printed in this run, in order
    status,          \* "running", "ok" (exit 0) or "failed" (exit non-zero)
    exc,             \* the exception that ended the run, or "none"
    run              \* 1 for the first run against the directory, 2 ...

vars == << script, pc, i, libAvailable, importAttempts, installAttempts,
           dirExists, fs, start, diagrams, calls, stdout, status, exc, run >>

\* The exit status of the process once it has ended.
ExitStatus == IF status = "ok" THEN 0 ELSE 1

\* The first statement of each script.
FirstPc(s) == IF s = "graphical" THEN "import" ELSE "makedirs"

Init ==
    /\ script \in {"graphical", "textual"}
    /\ pc = FirstPc(script)
    /\ i = 0
    /\ libAvailable \in (IF script = "graphical" THEN BOOLEAN ELSE {TRUE})
    /\ importAttempts = 0
    /\ installAttempts = 0
    /\ dirExists \in BOOLEAN
    /\ fs \in (IF dirExists THEN PriorDirs(script) ELSE {EmptyDir})
    /\ start = [dirExists |-> dirExists, fs |-> fs]
    /\ diagrams = << >>
    /\ calls = << >>
    /\ stdout = << >>
    /\ status = "running"
    /\ exc = "none"
    /\ run = 1

\* An exception nobody catches: the interpreter ends the process.
Raise(e) ==
    /\ status' = "failed"
    /\ exc' = e
    /\ pc' = "exit"

(***************************************************************************)
(* generate_diagrams.py: module load                                       *)
(***************************************************************************)
\* try: from diagrams import ...   (an ImportError enters the except block)
ImportDiagrams ==
    /\ pc = "import"
    /\ importAttempts' = importAttempts + 1
    /\ pc' = IF libAvailable THEN "makedirs" ELSE "except"
    /\ UNCHANGED << script, i, libAvailable, installAttempts, dirExists, fs,
                    start, diagrams, calls, stdout, status, exc, run >>

\* except ImportError: print(...); os.system("pip install diagrams").
\* os.system returns the command's status and never raises; the script
\* ignores it, so the library may or may not be there afterwards.
InstallDependency ==
    /\ pc = "except"
    /\ stdout' = Append(stdout, "Installing required dependencies...")
    /\ installAttempts' = installAttempts + 1
    /\ libAvailable' \in BOOLEAN
    /\ pc' = "reimport"
    /\ UNCHANGED << script, i, importAttempts, dirExists, fs, start, diagrams,
                    calls, status, exc, run >>

\* A variant that wraps the repeated imports in a retry loop: a renewed
\* failure goes back to the installation.
ReimportRetry ==
    /\ pc = "reimport"
    /\ importAttempts' = importAttempts + 1
    /\ pc' = IF libAvailable THEN "makedirs" ELSE "except"
    /\ UNCHANGED << script, i, libAvailable, installAttempts, dirExists, fs,
                    start, diagrams, calls, stdout, status, exc, run >>

\* The imports repeated inside the except block, outside any try.
ReimportDiagrams ==
    /\ pc = "reimport"
    /\ importAttempts' = importAttempts + 1
    /\ IF libAvailable
       THEN pc' = "makedirs" /\ UNCHANGED << status, exc >>
       ELSE Raise("ImportError")
    /\ UNCHANGED << script, i, libAvailable, installAttempts, dirExists, fs,
                    start, diagrams, calls, stdout, run >>

(***************************************************************************)
(* Both scripts: os.makedirs(<dir>, exist_ok=True) and the start message   *)
(***************************************************************************)
\* A variant without the os.makedirs call.
MakeDirsSkip ==
    /\ pc = "makedirs"
    /\ pc' = "print_start"
    /\ UNCHANGED << script, i, libAvailable, importAttempts, installAttempts,
                    dirExists, fs, start, diagrams, calls, stdout, status,
                    exc, run >>

MakeDirs ==
    /\ pc = "makedirs"
    /\ \/ /\ dirExists
          /\ pc' = "print_start"
          /\ UNCHANGED << dirExists, status, exc >>
       \/ /\ ~dirExists
          /\ dirExists' = TRUE
          /\ pc' = "print_start"
          /\ UNCHANGED << status, exc >>
       \/ /\ ~dirExists
          /\ Raise("OSError")
          /\ UNCHANGED dirExists
    /\ UNCHANGED << script, i, libAvailable, importAttempts, installAttempts,
                    fs, start, diagrams, calls, stdout, run >>

StartMessage(s) ==
    IF s = "graphical" THEN "Generating LiveVue architecture diagrams..."
    ELSE "Generating LiveVue Mermaid diagrams..."

DoneMessage(s) ==
    IF s = "graphical"
    THEN "Diagrams generated successfully in diagrams/output/"
    ELSE "Mermaid diagrams generated successfully in diagrams/mermaid/"

\* A variant without the first print.
PrintStartSilent ==
    /\ pc = "print_start"
    /\ pc' = "build"
    /\ i' = 1
    /\ UNCHANGED << script, libAvailable, importAttempts, installAttempts,
                    dirExists, fs, start, diagrams, calls, stdout, status,
                    exc, run >>

PrintStart ==
    /\ pc = "print_start"
    /\ stdout' = Append(stdout, StartMessage(script))
    /\ pc' = "build"
    /\ i' = 1
    /\ UNCHANGED << script, libAvailable, importAttempts, installAttempts,
                    dirExists, fs, start, diagrams, calls, status, exc, run >>

(***************************************************************************)
(* generate_diagrams.py: the four builders, called from __main__           *)
(***************************************************************************)
\* A variant that calls each builder inside try/except and goes on to the
\* next one when it raises.
CreateDiagramSwallow(k, fn) ==
    /\ pc = "build"
    /\ script = "graphical"
    /\ i = k
    /\ calls' = Append(calls, fn)
    /\ fs' \in {fs, OpenW(fs, RenderPath(k)),
                Write(OpenW(fs, RenderPath(k)), RenderPath(k), Rendered(k))}
    /\ IF k < Len(GraphicalFilenames)
       THEN i' = k + 1 /\ pc' = "build"
       ELSE i' = 0 /\ pc' = "print_done"
    /\ UNCHANGED << script, libAvailable, importAttempts, installAttempts,
                    dirExists, start, diagrams, stdout, status, exc, run >>

\* with Diagram(title, filename="output/<name>", show=False): ...
\* Leaving the block renders the diagram to its file.  The builder either
\* returns with the file written, or raises; a builder that raises may
\* have left its own file untouched or created and empty.
CreateDiagram(k, fn) ==
    /\ pc = "build"
    /\ script = "graphical"
    /\ i = k
    /\ calls' = Append(calls, fn)
    /\ \/ /\ dirExists
          /\ fs' = Write(OpenW(fs, RenderPath(k)), RenderPath(k), Rendered(k))
          /\ IF k < Len(GraphicalFilenames)
             THEN i' = k + 1 /\ pc' = "build"
             ELSE i' = 0 /\ pc' = "print_done"
          /\ UNCHANGED << status, exc >>
       \/ /\ dirExists
          /\ fs' \in {fs, OpenW(fs, RenderPath(k))}
          /\ Raise("BuilderError")
          /\ UNCHANGED i
       \/ /\ ~dirExists
          /\ Raise("FileNotFoundError")
          /\ UNCHANGED << fs, i >>
    /\ UNCHANGED << script, libAvailable, importAttempts, installAttempts,
                    dirExists, start, diagrams, stdout, run >>

create_high_level_architecture ==
    CreateDiagram(1, "create_high_level_architecture")

create_component_flow_diagram ==
    CreateDiagram(2, "create_component_flow_diagram")

create_data_flow_diagram ==
    CreateDiagram(3, "create_data_flow_diagram")

create_ssr_diagram ==
    CreateDiagram(4, "create_ssr_diagram")

(***************************************************************************)
(* generate_mermaid.py: generate_all_diagrams                              *)
(***************************************************************************)
\* The builder called for each entry of the dict literal.
TextualBuilders ==
    << "generate_high_level_architecture", "generate_component_flow",
       "generate_data_flow", "generate_ssr_process",
       "generate_class_diagram", "generate_lifecycle_diagram" >>

\* A variant that opens the file and writes nothing.
save_diagram_empty(dir, name, content) == OpenW(dir, MdPath(name))

\* save_diagram(name, content): with open(f"mermaid/{name}.md", "w") as f:
\*                                  f.write(content)
save_diagram(dir, name, content) ==
    Write(OpenW(dir, MdPath(name)), MdPath(name), content)

\* What the directory may look like when save_diagram fails: open failed
\* (untouched), or the write failed after the file was truncated, with
\* nothing or only a part of the content in it.
SaveFailures(dir, name, content) ==
    { dir,
      OpenW(dir, MdPath(name)),
      save_diagram(dir, name, SubSeq(content, 1, Len(content) \div 2)) }

\* A variant in which every entry is saved as soon as it is built.
BuildEntrySaving ==
    /\ pc = "build"
    /\ script = "textual"
    /\ i \in 1..Len(DiagramEntries)
    /\ calls' = Append(calls, TextualBuilders[i])
    /\ \/ /\ diagrams' = Append(diagrams, DiagramEntries[i])
          /\ fs' = save_diagram(fs, DiagramEntries[i].name,
                                DiagramEntries[i].content)
          /\ IF i < Len(DiagramEntries)
             THEN i' = i + 1 /\ pc' = "build"
             ELSE i' = 0 /\ pc' = "index_open"
          /\ UNCHANGED << status, exc >>
       \/ /\ Raise("BuilderError")
          /\ UNCHANGED << diagrams, fs, i >>
    /\ UNCHANGED << script, libAvailable, importAttempts, installAttempts,
                    dirExists, start, stdout, run >>

\* One entry of the dict literal: the key, then the call of its builder.
BuildEntry ==
    /\ pc = "build"
    /\ script = "textual"
    /\ i \in 1..Len(DiagramEntries)
    /\ calls' = Append(calls, TextualBuilders[i])
    /\ \/ /\ diagrams' = Append(diagrams, DiagramEntries[i])
          /\ IF i < Len(DiagramEntries)
             THEN i' = i + 1 /\ pc' = "build"
             ELSE i' = 1 /\ pc' = "save"
          /\ UNCHANGED << status, exc >>
       \/ /\ Raise("BuilderError")
          /\ UNCHANGED << diagrams, i >>
    /\ UNCHANGED << script, libAvailable, importAttempts, installAttempts,
                    dirExists, fs, start, stdout, run >>

\* A variant that walks the dict backwards: reversed(diagrams.items()).
SaveEntryReversed ==
    /\ pc = "save"
    /\ i \in 1..Len(diagrams)
    /\ LET e == diagrams[Len(diagrams) + 1 - i] IN
       \/ /\ dirExists
          /\ fs' = save_diagram(fs, e.name, e.content)
          /\ IF i < Len(diagrams)
             THEN i' = i + 1 /\ pc' = "save"
             ELSE i' = 0 /\ pc' = "index_open"
          /\ UNCHANGED << status, exc >>
       \/ /\ dirExists
          /\ fs' \in SaveFailures(fs, e.name, e.content)
          /\ Raise("OSError")
          /\ UNCHANGED i
       \/ /\ ~dirExists
          /\ Raise("FileNotFoundError")
          /\ UNCHANGED << fs, i >>
    /\ UNCHANGED << script, libAvailable, importAttempts, installAttempts,
                    dirExists, start, diagrams, calls, stdout, run >>

\* for name, content in diagrams.items(): save_diagram(name, content)
SaveEntry ==
    /\ pc = "save"
    /\ i \in 1..Len(diagrams)
    /\ \/ /\ dirExists
          /\ fs' = save_diagram(fs, diagrams[i].name, diagrams[i].content)
          /\ IF i < Len(diagrams)
             THEN i' = i + 1 /\ pc' = "save"
             ELSE i' = 0 /\ pc' = "index_open"
          /\ UNCHANGED << status, exc >>
       \/ /\ dirExists
          /\ fs' \in SaveFailures(fs, diagrams[i].name, diagrams[i].content)
          /\ Raise("OSError")
          /\ UNCHANGED i
       \/ /\ ~dirExists
          /\ Raise("FileNotFoundError")
          /\ UNCHANGED << fs, i >>
    /\ UNCHANGED << script, libAvailable, importAttempts, installAttempts,
                    dirExists, start, diagrams, calls, stdout, run >>

\* with open("mermaid/index.md", "w") as f:
IndexOpen ==
    /\ pc = "index_open"
    /\ \/ /\ dirExists
          /\ fs' = OpenW(fs, IndexPath)
          /\ pc' = "index_header"
          /\ UNCHANGED << status, exc >>
       \/ /\ dirExists
          /\ Raise("OSError")
          /\ UNCHANGED fs
       \/ /\ ~dirExists
          /\ Raise("FileNotFoundError")
          /\ UNCHANGED fs
    /\ UNCHANGED << script, i, libAvailable, importAttempts, installAttempts,
                    dirExists, start, diagrams, calls, stdout, run >>

\* The two f.write calls before the loop: the title and the description.
IndexHeader ==
    /\ pc = "index_header"
    /\ \/ /\ fs' = Write(Write(fs, IndexPath, IndexTitle),
                         IndexPath, IndexDescription)
          /\ pc' = "index_entry"
          /\ i' = 1
          /\ UNCHANGED << status, exc >>
       \/ /\ fs' \in {fs, Write(fs, IndexPath, IndexTitle)}
          /\ Raise("OSError")
          /\ UNCHANGED i
    /\ UNCHANGED << script, libAvailable, importAttempts, installAttempts,
                    dirExists, start, diagrams, calls, stdout, run >>

\* The body of the second loop over diagrams.items(): the heading, the
\* diagram's content, and a blank line.
IndexSection(name, content) == SectionHeading(name) \o content \o "\n\n"

IndexEntry ==
    /\ pc = "index_entry"
    /\ i \in 1..Len(diagrams)
    /\ \/ /\ fs' = Write(fs, IndexPath,
                         IndexSection(diagrams[i].name, diagrams[i].content))
          /\ IF i < Len(diagrams)
             THEN i' = i + 1 /\ pc' = "index_entry"
             ELSE i' = 0 /\ pc' = "print_done"
          /\ UNCHANGED << status, exc >>
       \/ /\ fs' \in {fs, Write(fs, IndexPath, SectionHeading(diagrams[i].name))}
          /\ Raise("OSError")
          /\ UNCHANGED i
    /\ UNCHANGED << script, libAvailable, importAttempts, installAttempts,
                    dirExists, start, diagrams, calls, stdout, run >>

(***************************************************************************)
(* Both scripts: the completion message and the end of the process         *)
(***************************************************************************)
PrintDone ==
    /\ pc = "print_done"
    /\ stdout' = Append(stdout, DoneMessage(script))
    /\ status' = "ok"
    /\ pc' = "exit"
    /\ UNCHANGED << script, i, libAvailable, importAttempts, installAttempts,
                    dirExists, fs, start, diagrams, calls, exc, run >>

\* The same script is started again against the directory a completed run
\* left behind: a new process, with the filesystem as it is.
Rerun ==
    /\ pc = "exit"
    /\ status = "ok"
    /\ run < MaxRuns
    /\ run' = run + 1
    /\ pc' = FirstPc(script)
    /\ i' = 0
    /\ importAttempts' = 0
    /\ installAttempts' = 0
    /\ start' = [dirExists |-> dirExists, fs |-> fs]
    /\ diagrams' = << >>
    /\ calls' = << >>
    /\ stdout' = << >>
    /\ status' = "running"
    /\ exc' = "none"
    /\ UNCHANGED << script, libAvailable, dirExists, fs >>

Next ==
    \/ ImportDiagrams
    \/ InstallDependency
    \/ ReimportDiagrams
    \/ MakeDirs
    \/ PrintStart
    \/ create_high_level_architecture
    \/ create_component_flow_diagram
    \/ create_data_flow_diagram
    \/ create_ssr_diagram
    \/ BuildEntry
    \/ SaveEntry
    \/ IndexOpen
    \/ IndexHeader
    \/ IndexEntry
    \/ PrintDone
    \/ Rerun

Spec == Init /\ [][Next]_vars


(***************************************************************************)
(* Properties                                                              *)
(***************************************************************************)
\* The run has ended with exit status 0.
Completed == pc = "exit" /\ status = "ok"

\* File f is the same in two listings: in both or in neither, and with the
\* same content.
SameFile(d1, d2, f) ==
    /\ (f \in DOMAIN d1) <=> (f \in DOMAIN d2)
    /\ f \in DOMAIN d1 => d1[f] = d2[f]

\* The first n elements of a sequence.
Prefix(seq, n) == SubSeq(seq, 1, n)

TopicFiles ==
    << "architecture.md", "component_flow.md", "data_flow.md",
       "ssr_process.md", "class_diagram.md", "lifecycle.md" >>

SevenFiles ==
    { "architecture.md", "component_flow.md", "data_flow.md",
      "ssr_process.md", "class_diagram.md", "lifecycle.md", "index.md" }

\* C1: a run of the textual generator that completes, started with mermaid/
\* empty or absent, leaves exactly the seven files architecture.md,
\* component_flow.md, data_flow.md, ssr_process.md, class_diagram.md,
\* lifecycle.md and index.md in it.
C1_SevenFiles ==
    (script = "textual" /\ Completed /\ start.fs = EmptyDir)
        => DOMAIN fs = SevenFiles

C1_Witness ==
    /\ script = "textual"
    /\ Completed
    /\ ~start.dirExists
    /\ start.fs = EmptyDir
    /\ Cardinality(DOMAIN fs) = 7

\* C2 as stated: a completed run of either generator against an empty
\* directory leaves exactly six files, one per topic, all non-empty.
C2_SixFilesEach ==
    (Completed /\ start.fs = EmptyDir)
        => /\ Cardinality(DOMAIN fs) = 6
           /\ \A f \in DOMAIN fs : fs[f] # ""

\* C2 amended: a completed run against an empty directory leaves, for the
\* textual generator, seven non-empty files (the six per-topic files and
\* index.md) and, for the graphical generator, four non-empty files, one
\* per builder, named after architecture, component_flow, data_flow and
\* ssr_process; and no further file.
C2_FilesPerGenerator ==
    (Completed /\ start.fs = EmptyDir)
        => /\ \A f \in DOMAIN fs : fs[f] # ""
           /\ script = "textual" =>
                /\ Cardinality(DOMAIN fs) = 7
                /\ \A k \in 1..6 : TopicFiles[k] \in DOMAIN fs
                /\ "index.md" \in DOMAIN fs
           /\ script = "graphical" =>
                /\ Cardinality(DOMAIN fs) = 4
                /\ \A n \in {"architecture", "component_flow",
                             "data_flow", "ssr_process"} :
                       \E f \in DOMAIN fs :
                           /\ Len(f) > Len(n)
                           /\ SubSeq(f, 1, Len(n) + 1) = n \o "."

C2_Witness ==
    /\ script = "graphical"
    /\ Completed
    /\ start.fs = EmptyDir
    /\ Cardinality(DOMAIN fs) = 4

\* C3: after a completed run of the textual generator index.md is the
\* title, the description and, for the six diagrams in builder order, a
\* heading with the title-cased topic name followed by the content of that
\* diagram's file; it has exactly six section headings, and the six
\* contents are substrings of it at increasing positions.
ExpectedHeadings ==
    << "## Architecture\n\n", "## Component Flow\n\n", "## Data Flow\n\n",
       "## Ssr Process\n\n", "## Class Diagram\n\n", "## Lifecycle\n\n" >>

\* The index document put together from the files of the directory.
RECURSIVE ExpectedSections(_, _)
ExpectedSections(dir, k) ==
    IF k = 0 THEN ""
    ELSE ExpectedSections(dir, k - 1)
         \o ExpectedHeadings[k] \o dir[TopicFiles[k]] \o "\n\n"

ExpectedIndex(dir) ==
    "# LiveVue Architecture Diagrams\n\n"
    \o "This document contains various diagrams explaining the architecture of LiveVue.\n\n"
    \o ExpectedSections(dir, 6)

\* The number of lines of a text that start with "## ".
HeadingCount(text) ==
    Cardinality({k \in 1..(Len(text) - 3) : SubSeq(text, k, k + 3) = "\n## "})
    + (IF Len(text) >= 3 /\ SubSeq(text, 1, 3) = "## " THEN 1 ELSE 0)

\* Where the content of the k-th diagram starts in the index document.
ContentStart(dir, k) ==
    Len("# LiveVue Architecture Diagrams\n\n")
    + Len("This document contains various diagrams explaining the architecture of LiveVue.\n\n")
    + Len(ExpectedSections(dir, k - 1)) + Len(ExpectedHeadings[k]) + 1

C3_IndexContent ==
    (script = "textual" /\ Completed)
        => /\ fs["index.md"] = ExpectedIndex(fs)
           /\ HeadingCount(fs["index.md"]) = 6
           /\ \A k \in 1..6 :
                LET from == ContentStart(fs, k)
                    c == fs[TopicFiles[k]]
                IN /\ c # ""
                   /\ SubSeq(fs["index.md"], from, from + Len(c) - 1) = c
                   /\ k < 6 => from + Len(c) - 1 < ContentStart(fs, k + 1)

C3_Witness ==
    /\ script = "textual"
    /\ Completed
    /\ HeadingCount(fs["index.md"]) = 6
    /\ Len(fs["index.md"]) > Len(fs["lifecycle.md"])

\* C4: for the textual generator the seven files a completed run leaves
\* depend only on the builders: each per-topic file is exactly what its
\* builder returns, whatever the directory held before, and a second run
\* against the populated directory leaves all seven files as the first run
\* wrote them.
C4_Overwrite ==
    (script = "textual" /\ Completed)
        => /\ \A k \in 1..6 : fs[TopicFiles[k]] = DiagramEntries[k].content
           /\ fs["index.md"] \notin {StaleShort, StaleLong}
           /\ run > 1 => \A f \in SevenFiles : SameFile(fs, start.fs, f)

C4_Witness ==
    /\ script = "textual"
    /\ Completed
    /\ run = 2
    /\ \A f \in SevenFiles : f \in DOMAIN start.fs /\ fs[f] = start.fs[f]

\* C5: no builder runs and no file is written while the directory is
\* missing, so no run ends in a missing-directory error; and os.makedirs
\* on a directory that exists raises nothing and changes nothing in it.
C5_DirectoryFirst ==
    /\ [](/\ pc \in {"print_start", "build", "save", "index_open",
                     "index_header", "index_entry", "print_done"}
             => dirExists
          /\ (calls # << >> \/ fs # start.fs) => dirExists
          /\ exc # "FileNotFoundError")
    /\ [][(pc = "makedirs" /\ dirExists)
            => /\ dirExists'
               /\ fs' = fs
               /\ status' = "running"
               /\ pc' = "print_start"]_vars

C5_Witness ==
    /\ ~start.dirExists
    /\ dirExists
    /\ Completed
    /\ fs # EmptyDir

\* C6: in the graphical generator a failed first import is followed by
\* exactly one installation attempt and exactly one further import; when
\* that import fails too the run ends in failure with the directory not
\* created and no builder run; when the first import succeeds nothing is
\* installed.
C6_InstallOnce ==
    /\ installAttempts <= 1
    /\ importAttempts <= 2
    /\ importAttempts = 2 => installAttempts = 1
    /\ (installAttempts = 1 /\ pc # "reimport") => importAttempts = 2
    /\ (importAttempts = 1 /\ pc \notin {"except", "reimport"}) => installAttempts = 0
    /\ exc = "ImportError" =>
         /\ script = "graphical"
         /\ installAttempts = 1
         /\ importAttempts = 2
         /\ status = "failed"
         /\ pc = "exit"
         /\ dirExists = start.dirExists
         /\ fs = start.fs
         /\ calls = << >>

C6_Witness ==
    /\ script = "graphical"
    /\ exc = "ImportError"
    /\ ~dirExists
    /\ installAttempts = 1

\* C7: a builder that raises ends the run at once: it is the last builder
\* invoked and was invoked once, the completion message is not printed,
\* the exit status is not 0, and no file other than the failing builder's
\* own is removed or changed by the failure; a run that has ended takes no
\* further step; and the exit status is 0 only when every builder was
\* invoked and every file is written.
GraphicalFiles ==
    << "architecture.png", "component_flow.png", "data_flow.png",
       "ssr_process.png" >>

C7_BuilderFailure ==
    /\ [](/\ exc = "BuilderError" =>
               /\ status = "failed"
               /\ ExitStatus # 0
               /\ pc = "exit"
               /\ Len(calls) = i
               /\ \A j, k \in 1..Len(calls) : calls[j] = calls[k] => j = k
               /\ \A k \in 1..Len(stdout) : stdout[k] # DoneMessage(script)
          /\ ExitStatus = 0 =>
               /\ pc = "exit"
               /\ Len(calls) = (IF script = "textual" THEN 6 ELSE 4)
               /\ script = "textual" =>
                    \A f \in SevenFiles : f \in DOMAIN fs /\ fs[f] # ""
               /\ script = "graphical" =>
                    \A k \in 1..4 : /\ GraphicalFiles[k] \in DOMAIN fs
                                    /\ fs[GraphicalFiles[k]] # "")
    /\ [][/\ status # "failed"
          /\ (status = "running" /\ exc' = "BuilderError") =>
               /\ DOMAIN fs \subseteq DOMAIN fs'
               /\ script = "textual" => fs' = fs
               /\ script = "graphical" =>
                    \A f \in DOMAIN fs :
                        f # GraphicalFiles[i] => fs'[f] = fs[f]]_vars

C7_Witness ==
    /\ script = "graphical"
    /\ exc = "BuilderError"
    /\ Len(calls) = 3
    /\ "architecture.png" \in DOMAIN fs
    /\ "ssr_process.png" \notin DOMAIN fs

\* C8: the builders are invoked in the fixed order, none twice, and all of
\* them in a run that completes; the start message is printed before the
\* first builder is invoked, and the completion message only after every
\* builder has returned and every output file is written.
GraphicalOrder ==
    << "create_high_level_architecture", "create_component_flow_diagram",
       "create_data_flow_diagram", "create_ssr_diagram" >>

TextualOrder ==
    << "generate_high_level_architecture", "generate_component_flow",
       "generate_data_flow", "generate_ssr_process",
       "generate_class_diagram", "generate_lifecycle_diagram" >>

FixedOrder == IF script = "graphical" THEN GraphicalOrder ELSE TextualOrder

Printed(msg) == \E k \in 1..Len(stdout) : stdout[k] = msg

C9_BuildBeforeWrite ==
    /\ script = "textual" =>
         /\ fs # start.fs => (Len(diagrams) = 6 /\ Len(calls) = 6)
         /\ (pc = "build" \/ exc = "BuilderError") => fs = start.fs
    /\ (script = "graphical" /\ exc = "BuilderError") =>
         \A k \in 1..(Len(calls) - 1) :
             /\ GraphicalFiles[k] \in DOMAIN fs
             /\ fs[GraphicalFiles[k]] # ""
             /\ fs[GraphicalFiles[k]] \notin {StaleShort, StaleLong}

C9_Witness ==
    /\ script = "textual"
    /\ exc = "BuilderError"
    /\ Len(calls) = 4
    /\ fs = start.fs
    /\ dirExists

\* C10: in the textual generator the per-topic files are written in
\* mapping order and index.md is opened only after all six are written;
\* when the write of the k-th file fails, files 1..k-1 hold the new
\* content and files k+1..6 and index.md are as they were before the run.
WrittenUpTo(dir, n) ==
    \A k \in 1..n : /\ TopicFiles[k] \in DOMAIN dir
                    /\ dir[TopicFiles[k]] = DiagramEntries[k].content

UntouchedFrom(dir, n) ==
    /\ \A k \in n..6 : SameFile(dir, start.fs, TopicFiles[k])
    /\ SameFile(dir, start.fs, "index.md")

C10_SaveOrder ==
    /\ [](script = "textual" =>
            /\ pc = "save" => (WrittenUpTo(fs, i - 1) /\ UntouchedFrom(fs, i))
            /\ pc \in {"index_open", "index_header", "index_entry",
                       "print_done"} => WrittenUpTo(fs, 6)
            /\ ~SameFile(fs, start.fs, "index.md") => WrittenUpTo(fs, 6))
    /\ [][(pc = "save" /\ status' = "failed")
            => /\ WrittenUpTo(fs', i - 1)
               /\ UntouchedFrom(fs', i + 1)]_vars

C10_Witness ==
    /\ script = "textual"
    /\ exc = "OSError"
    /\ i = 2
    /\ fs["architecture.md"] = generate_high_level_architecture
    /\ "data_flow.md" \in DOMAIN fs
    /\ fs["data_flow.md"] = StaleLong
    /\ SameFile(fs, start.fs, "index.md")
    /\ ~SameFile(fs, start.fs, "component_flow.md")
====
